---- MODULE Spec2Model ----
(***************************************************************************)
(* campus_guide: institutions and their geo / image files.                 *)
(*                                                                         *)
(* The state is the relational store (institutions, geofiles, imagefiles), *)
(* the storage directories (a map from paths to byte contents) and the     *)
(* answer of the last request.  Requests run one at a time; an upload      *)
(* request walks its list of files one element per step.  The calls of     *)
(* FileHandler that run interleaved (calls) have a specification of their  *)
(* own, in which each call advances one step of its code at a time.        *)
(*                                                                         *)
(* Byte contents are a small table of concrete strings; json.loads,        *)
(* json.dumps and kml2geojson.convert are tables over them.  I/O steps may *)
(* fail (parameter fault): a failed write leaves the file it opened behind *)
(* with a truncated content.  The removal of an existing file succeeds.    *)
(*                                                                         *)
(* A uuid4 is a number no earlier draw has produced (nextUuid); a draw     *)
(* that leaves nothing in the state does not use the number up.  utcnow is *)
(* a clock (now) that has moved on whenever it is read again.              *)
(***************************************************************************)
EXTENDS Integers, Sequences, FiniteSets, TLC

VARIABLES institutions, geofiles, imagefiles, files, nextUuid, now, batch, last, calls

vars == <<institutions, geofiles, imagefiles, files, nextUuid, now, batch, last, calls>>

(* ------------------------------ bounds -------------------------------- *)

MaxUuid == 3
MaxClock == 2
MaxBatch == 2

(* ----------------------- app/__init__.py ------------------------------ *)

(* A variant that lets text/plain through.                                 *)
ALLOWED_MIME_TYPES_with_text ==
  { "image/png", "image/jpeg", "image/jpg", "image/gif", "image/webp",
    "application/geo+json", "application/vnd.google-earth.kml+xml",
    "application/json", "application/octet-stream", "text/plain" }

ALLOWED_MIME_TYPES ==
  { "image/png", "image/jpeg", "image/jpg", "image/gif", "image/webp",
    "application/geo+json", "application/vnd.google-earth.kml+xml",
    "application/json", "application/octet-stream" }

GEO_MIME_TYPES ==
  { "application/vnd.google-earth.kml+xml", "application/octet-stream",
    "application/json", "application/geo+json" }

(* The test of upload_file and of _get_upload_path on a declared type.     *)
classify(mime) ==
  IF mime \notin ALLOWED_MIME_TYPES THEN "Rejected"
  ELSE IF mime \in GEO_MIME_TYPES THEN "Geo"
  ELSE "Image"

(* ----------------------- file names and paths ------------------------- *)

GEO_JSON_DIR == "app/static/geo_jsons"
IMAGE_DIR == "app/static/images"

(* Upper-case letters of the file names in use, with their lower case.     *)
lower_char(c) ==
  CASE c = "K" -> "k"
    [] c = "M" -> "m"
    [] c = "L" -> "l"
    [] OTHER -> c

lower(s) == [i \in 1..Len(s) |-> lower_char(s[i])]

(* pathlib's PurePath.suffix: the part of the name from its last dot, if   *)
(* that dot is neither the first nor the last character.                   *)
dots(name) == {i \in 1..Len(name) : name[i] = "."}

last_dot(name) == CHOOSE i \in dots(name) : \A j \in dots(name) : j <= i

suffix(name) ==
  IF dots(name) = {} THEN <<>>
  ELSE IF 1 < last_dot(name) /\ last_dot(name) < Len(name)
       THEN SubSeq(name, last_dot(name), Len(name))
       ELSE <<>>

KML_SUFFIX == <<".", "k", "m", "l">>
GEOJSON_SUFFIX == <<".", "g", "e", "o", "j", "s", "o", "n">>
TMP_SUFFIX == <<".", "t", "m", "p">>

(* A stored path: directory, then "<uuid><suffix>", with a leading dot for *)
(* the temporary names of overwrite_file.                                  *)
NoPath == [dir |-> "", hidden |-> FALSE, uuid |-> 0, suffix |-> <<>>]

with_suffix(p, s) == [p EXCEPT !.suffix = s]

file_name(p) == [hidden |-> p.hidden, uuid |-> p.uuid, suffix |-> p.suffix]

(* --------------------------- byte contents ---------------------------- *)

EMPTY == ""
GEOJSON_BYTES == "{\"type\": \"FeatureCollection\", \"features\": []}"
NOTYPE_BYTES == "{\"data\": \"not geojson\"}"
VALID_KML_CONTENT == "<kml><Placemark><name>P</name><Point/></Placemark></kml>"
NOFEATURE_KML_CONTENT == "<kml/>"
CONVERTED_BYTES == "{\"type\": \"FeatureCollection\", \"features\": [{\"name\": \"P\"}]}"
(* A JSON value that is no object, and bytes that are no UTF-8 text.       *)
LIST_BYTES == "[1, 2]"
IMAGE_CONTENT == "\\x89PNG"
(* What a write that failed part-way leaves in the file it had opened.     *)
TRUNCATED == "{\"ty"

(* json.loads: the parsed value, or the error.                             *)
JsonError == [ok |-> FALSE, dict |-> FALSE, keys |-> {}, value |-> "JSONDecodeError"]

json_loads(bytes) ==
  CASE bytes = GEOJSON_BYTES ->
         [ok |-> TRUE, dict |-> TRUE, keys |-> {"type", "features"},
          value |-> "FeatureCollection()"]
    [] bytes = CONVERTED_BYTES ->
         [ok |-> TRUE, dict |-> TRUE, keys |-> {"type", "features"},
          value |-> "FeatureCollection(Point P)"]
    [] bytes = NOTYPE_BYTES ->
         [ok |-> TRUE, dict |-> TRUE, keys |-> {"data"}, value |-> "data: not geojson"]
    [] bytes = LIST_BYTES ->
         [ok |-> TRUE, dict |-> FALSE, keys |-> {}, value |-> "list: 1, 2"]
    [] OTHER -> JsonError

(* Whether a text-mode read with encoding utf-8 decodes the bytes.         *)
utf8(bytes) == bytes # IMAGE_CONTENT

(* kml2geojson.main.convert on the bytes of a file: the dictionary it      *)
(* yields (empty when the document holds no feature), or ExpatError for    *)
(* bytes that are not well-formed XML.                                     *)
kml_convert(bytes) ==
  CASE bytes = VALID_KML_CONTENT -> [exc |-> "None", result |-> "FeatureCollection(Point P)"]
    [] bytes = NOFEATURE_KML_CONTENT -> [exc |-> "None", result |-> ""]
    [] OTHER -> [exc |-> "ExpatError", result |-> ""]

(* json.dumps of a dictionary the converter yields.                        *)
json_dumps(value) ==
  CASE value = "FeatureCollection(Point P)" -> CONVERTED_BYTES
    [] value = "FeatureCollection()" -> GEOJSON_BYTES
    [] OTHER -> "{}"

(* --------------------------- the file system -------------------------- *)

exists(fs, p) == p \in DOMAIN fs

write(fs, p, bytes) == [q \in DOMAIN fs \cup {p} |-> IF q = p THEN bytes ELSE fs[q]]

remove(fs, p) == [q \in DOMAIN fs \ {p} |-> fs[q]]

(* A variant that copies the source and leaves it where it was.            *)
move_copy(fs, src, dst) == [q \in DOMAIN fs \cup {dst} |-> IF q = dst THEN fs[src] ELSE fs[q]]

(* shutil.move onto a file of the same directory: a rename.                *)
move(fs, src, dst) ==
  [q \in (DOMAIN fs \ {src}) \cup {dst} |-> IF q = dst THEN fs[src] ELSE fs[q]]

(* ------------------- utility/file_services.py ------------------------- *)

(* What a FileHandler call hands back: the storage it leaves, the status   *)
(* and detail of the HTTPException it raises (200 when it returns), the    *)
(* path it returns and the I/O step that failed, if one did.               *)
Outcome(fs, status, detail, path, failed) ==
  [fs |-> fs, status |-> status, detail |-> detail, path |-> path, failed |-> failed]

Faults == {"none", "read", "write", "convert", "conv_write", "move"}

(* A variant whose finally clause leaves the input file.                   *)
convert_cleanup_keep(fs, input_filepath) == fs

(* The finally clause of the converter removes the input file.             *)
convert_cleanup(fs, input_filepath) ==
  IF exists(fs, input_filepath) THEN remove(fs, input_filepath) ELSE fs

(* A variant without the test of an empty conversion result.               *)
convert_and_save_unchecked(fs, input_filepath, output_filepath, fault) ==
  LET conv == kml_convert(fs[input_filepath])
      raised(fs1, exc, msg, failed) ==
        [fs |-> convert_cleanup(fs1, input_filepath), exc |-> exc, msg |-> msg,
         failed |-> failed]
  IN  IF fault = "convert"
        THEN raised(fs, "ValueError", "KML to GeoJSON conversion failed", "convert")
      ELSE IF conv.exc = "ExpatError"
        THEN raised(fs, "ValueError", "Invalid KML structure or encoding", "none")
      ELSE IF fault = "conv_write"
        THEN raised(write(fs, output_filepath, TRUNCATED), "OSError", "write failed",
                    "conv_write")
      ELSE raised(write(fs, output_filepath, json_dumps(conv.result)), "None", "", "none")

(* convert_and_save_kml_to_geojson: the storage it leaves and the          *)
(* exception it raises.                                                    *)
convert_and_save_kml_to_geojson(fs, input_filepath, output_filepath, fault) ==
  LET conv == kml_convert(fs[input_filepath])
      raised(fs1, exc, msg, failed) ==
        [fs |-> convert_cleanup(fs1, input_filepath), exc |-> exc, msg |-> msg,
         failed |-> failed]
  IN  IF fault = "convert"
        THEN raised(fs, "ValueError", "KML to GeoJSON conversion failed", "convert")
      ELSE IF conv.exc = "ExpatError"
        THEN raised(fs, "ValueError", "Invalid KML structure or encoding", "none")
      ELSE IF conv.result = ""
        THEN raised(fs, "ValueError", "Invalid KML structure or encoding", "none")
      ELSE IF fault = "conv_write"
        THEN raised(write(fs, output_filepath, TRUNCATED), "OSError", "write failed",
                    "conv_write")
      ELSE raised(write(fs, output_filepath, json_dumps(conv.result)), "None", "", "none")

(* A variant that stores every upload in the geo directory.                *)
upload_dir_geo_only(uploaded_file) == GEO_JSON_DIR

upload_dir(uploaded_file) ==
  IF uploaded_file.content_type \in GEO_MIME_TYPES THEN GEO_JSON_DIR ELSE IMAGE_DIR

(* A variant that names the stored file after the upload alone.            *)
get_upload_path_by_name(uploaded_file, id) ==
  IF suffix(uploaded_file.filename) = <<>> THEN NoPath
  ELSE [dir |-> upload_dir(uploaded_file), hidden |-> FALSE,
        uuid |-> Len(uploaded_file.filename), suffix |-> suffix(uploaded_file.filename)]

(* _get_upload_path: the path for the upload under the fresh uuid id;      *)
(* NoPath when it raises 400 "File has no extension".                      *)
get_upload_path(uploaded_file, id) ==
  IF suffix(uploaded_file.filename) = <<>> THEN NoPath
  ELSE [dir |-> upload_dir(uploaded_file), hidden |-> FALSE, uuid |-> id,
        suffix |-> suffix(uploaded_file.filename)]

is_kml(uploaded_file) == lower(suffix(uploaded_file.filename)) = KML_SUFFIX

(* A variant that writes the bytes before it tests them for emptiness.     *)
save_file_write_first(fs, uploaded_file, id, fault) ==
  LET file_path_obj == get_upload_path(uploaded_file, id)
      written == write(fs, file_path_obj, uploaded_file.content)
  IN  IF file_path_obj = NoPath
        THEN Outcome(fs, 400, "File has no extension", NoPath, "none")
      ELSE IF uploaded_file.content = EMPTY
        THEN Outcome(written, 400, "Empty file uploaded", NoPath, "none")
      ELSE Outcome(written, 200, "", file_path_obj, "none")

save_file(fs, uploaded_file, id, fault) ==
  LET file_path_obj == get_upload_path(uploaded_file, id)
      output_filepath == with_suffix(file_path_obj, GEOJSON_SUFFIX)
      written == write(fs, file_path_obj, uploaded_file.content)
      conv == convert_and_save_kml_to_geojson(written, file_path_obj, output_filepath, fault)
  IN  IF file_path_obj = NoPath
        THEN Outcome(fs, 400, "File has no extension", NoPath, "none")
      ELSE IF fault = "read"
        THEN Outcome(fs, 500, "Could not save file on server", NoPath, "read")
      ELSE IF uploaded_file.content = EMPTY
        THEN Outcome(fs, 400, "Empty file uploaded", NoPath, "none")
      ELSE IF fault = "write"
        THEN Outcome(write(fs, file_path_obj, TRUNCATED), 500,
                     "Could not save file on server", NoPath, "write")
      ELSE IF ~is_kml(uploaded_file)
        THEN Outcome(written, 200, "", file_path_obj, "none")
      ELSE IF conv.exc = "ValueError"
        THEN Outcome(conv.fs, 400, "Error processing KML file: " \o conv.msg, NoPath,
                     conv.failed)
      ELSE IF conv.exc = "OSError"
        THEN Outcome(conv.fs, 500, "Could not save file on server", NoPath, conv.failed)
      ELSE Outcome(conv.fs, 200, "", output_filepath, "none")

(* The answer of load_geojson_content: the parsed value or the exception. *)
Loaded(status, detail, body, failed) ==
  [status |-> status, detail |-> detail, body |-> body, failed |-> failed]

(* A variant that asks for a 'features' key where the code asks for 'type'. *)
load_geojson_content_strict(fs, file_path, fault) ==
  LET parsed == json_loads(fs[file_path])
  IN  IF ~exists(fs, file_path)
        THEN Loaded(404, "GeoJSON file not found", JsonError, "none")
      ELSE IF ~parsed.ok
        THEN Loaded(400, "Could not parse GeoJSON file content", JsonError, "none")
      ELSE Loaded(400, "Invalid GeoJSON structure: Missing 'type' key or not a dictionary.",
                  JsonError, "none")

(* A variant that tests the structure before it knows the text is JSON.    *)
load_geojson_content_structure_first(fs, file_path, fault) ==
  LET parsed == json_loads(fs[file_path])
  IN  IF ~exists(fs, file_path)
        THEN Loaded(404, "GeoJSON file not found", JsonError, "none")
      ELSE IF fault = "read"
        THEN Loaded(500, "Error loading GeoJSON file", JsonError, "read")
      ELSE IF ~utf8(fs[file_path])
        THEN Loaded(400, "'utf-8' codec can't decode byte", JsonError, "none")
      ELSE IF ~parsed.dict \/ "type" \notin parsed.keys
        THEN Loaded(400, "Invalid GeoJSON structure: Missing 'type' key or not a dictionary.",
                    JsonError, "none")
      ELSE Loaded(200, "", parsed, "none")

(* load_geojson_content: status, detail and the parsed value.  An absent   *)
(* path is answered before the file is opened; a read that raises is       *)
(* caught by the last handler; bytes that do not decode raise a ValueError *)
(* whose text becomes the detail.                                          *)
load_geojson_content(fs, file_path, fault) ==
  LET parsed == json_loads(fs[file_path])
  IN  IF ~exists(fs, file_path)
        THEN Loaded(404, "GeoJSON file not found", JsonError, "none")
      ELSE IF fault = "read"
        THEN Loaded(500, "Error loading GeoJSON file", JsonError, "read")
      ELSE IF ~utf8(fs[file_path])
        THEN Loaded(400, "'utf-8' codec can't decode byte", JsonError, "none")
      ELSE IF ~parsed.ok
        THEN Loaded(400, "Could not parse GeoJSON file content", JsonError, "none")
      ELSE IF ~parsed.dict \/ "type" \notin parsed.keys
        THEN Loaded(400, "Invalid GeoJSON structure: Missing 'type' key or not a dictionary.",
                    JsonError, "none")
      ELSE Loaded(200, "", parsed, "none")

(* A variant that empties the storage with the file.                       *)
FileHandler_delete_file_all(fs, file_path) ==
  IF exists(fs, file_path) THEN [q \in {} |-> EMPTY] ELSE fs

(* A variant that logs the removal and leaves the file.                    *)
FileHandler_delete_file_keep(fs, file_path) == fs

FileHandler_delete_file(fs, file_path) ==
  IF exists(fs, file_path) THEN remove(fs, file_path) ELSE fs

(* A variant whose close of the upload is the last statement of the try    *)
(* block.                                                                  *)
finally_close_on_return(status) == status = 200

(* The finally clause of save_file and of overwrite_file, await            *)
(* file.close(): whether the upload is closed when the call ends with the  *)
(* status given.                                                           *)
finally_close(status) == TRUE

(* A variant that opens the target itself for writing.                     *)
opened_for_write_in_place(target_path, temp_file_path) == target_path

(* The file overwrite_file opens with "wb" and writes the upload to.       *)
opened_for_write(target_path, temp_file_path) == temp_file_path

(* overwrite_file under the fresh uuid id for the temporary name.  Every   *)
(* exception is caught: the handler removes temp_file_path if it exists    *)
(* and raises 500.                                                         *)
overwrite_cleanup(fs, temp_file_path) ==
  IF exists(fs, temp_file_path) THEN remove(fs, temp_file_path) ELSE fs

(* A variant that moves the uploaded bytes onto the target unconverted.    *)
overwrite_file_raw(fs, file, target_path, id, fault) ==
  Outcome(write(fs, target_path, file.content), 200, "", target_path, "none")

overwrite_file(fs, file, target_path, id, fault) ==
  LET temp_file_path == [dir |-> target_path.dir, hidden |-> TRUE, uuid |-> id,
                         suffix |-> TMP_SUFFIX]
      output_filepath == with_suffix(temp_file_path, GEOJSON_SUFFIX)
      written == write(fs, temp_file_path, file.content)
      conv == convert_and_save_kml_to_geojson(written, temp_file_path, output_filepath, fault)
      source == IF is_kml(file) THEN output_filepath ELSE temp_file_path
      ready == IF is_kml(file) THEN conv.fs ELSE written
      failure(fs1, tmp, msg, failed) ==
        Outcome(overwrite_cleanup(fs1, tmp), 500, "Failed to overwrite file: " \o msg,
                NoPath, failed)
  IN  IF fault = "read"
        THEN failure(write(fs, temp_file_path, EMPTY), temp_file_path, "read failed", "read")
      ELSE IF fault = "write" /\ file.content # EMPTY
        THEN failure(write(fs, temp_file_path, TRUNCATED), temp_file_path, "write failed",
                     "write")
      ELSE IF is_kml(file) /\ conv.exc # "None"
        THEN failure(conv.fs, temp_file_path, conv.msg, conv.failed)
      ELSE IF fault = "move"
        THEN failure(ready, source, "move failed", "move")
      ELSE Outcome(move(ready, source, target_path), 200, "", target_path, "none")

(* ------------------------------ inputs -------------------------------- *)

FileNames ==
  { <<"a", ".", "p", "n", "g">>,
    <<"d", ".", "K", "M", "L">>,
    <<"n", "o", "e", "x", "t">> }

(* Declared types: the allowed ones and two that are not.                  *)
MimeTypes == ALLOWED_MIME_TYPES \cup {"text/plain", "image/bmp"}

(* The declared types the requests of the model carry.                     *)
RequestMimeTypes == {"image/png", "application/geo+json", "text/plain"}

(* The bytes the requests of the model carry.  GeoJSON bytes are not XML:   *)
(* under a .kml name they are the malformed KML; KML bytes are not JSON.   *)
Contents == {EMPTY, GEOJSON_BYTES, VALID_KML_CONTENT, NOFEATURE_KML_CONTENT}

UploadFiles == [filename : FileNames, content_type : RequestMimeTypes, content : Contents]

NoUpload == [filename |-> <<>>, content_type |-> "", content |-> EMPTY]

InstitutionNames == {"ABU", "UNILAG"}

FileKinds == {"geo", "image", "doc"}

(* An id, a name that no row carries.                                      *)
NoInstitution == NoPath.uuid
NoName == file_name(NoPath)

(* ------------------------ the answer of a request --------------------- *)

Response ==
  [op |-> "none", status |-> 0, detail |-> "", kind |-> "", name |-> NoName,
   inst |-> NoInstitution, upload |-> NoUpload, path |-> NoPath, failed |-> "none",
   body |-> JsonError, raw |-> "", media_type |-> "", geo_files |-> <<>>,
   image_files |-> <<>>, closed |-> FALSE, institution_name |-> ""]

NoBatch == [open |-> FALSE, inst |-> NoInstitution, geo_files |-> <<>>, image_files |-> <<>>]

(* -------------------- utility/db_services.py -------------------------- *)

institution_ids == {i.id : i \in institutions}

(* get_institution_by_id over the rows given: the answer of the lookup.    *)
get_institution_by_id(rows, institution_id) ==
  IF \E i \in rows : i.id = institution_id
    THEN [status |-> 200, detail |-> ""]
    ELSE [status |-> 404, detail |-> "Institution not found"]

(* A variant whose query matches no row.                                   *)
institution_exists_no_match(name) == \E i \in {} : i.name = name

institution_exists(name) == \E i \in institutions : i.name = name

(* A variant that looks in the table of the other kind.                    *)
file_exists_other_kind(institution_id, is_geo) ==
  \E f \in (IF is_geo THEN imagefiles ELSE geofiles) : f.institution_id = institution_id

(* db.query(model).filter(model.institution_id == institution_id).first()  *)
file_exists(institution_id, is_geo) ==
  \E f \in (IF is_geo THEN geofiles ELSE imagefiles) : f.institution_id = institution_id

(* The row create_file builds for the file save_file returned.             *)
new_file(fs, file, file_path, institution_id, t) ==
  [name |-> file_name(file_path),
   content_type |-> file.content_type,
   path |-> file_path,
   institution_id |-> institution_id,
   size |-> Len(fs[file_path]),
   url |-> <<IF file.content_type \in GEO_MIME_TYPES THEN "geo" ELSE "image",
             file_name(file_path)>>,
   created_at |-> t,
   updated_at |-> t]

(* A variant in which a request is one transaction, rolled back when it    *)
(* raises.                                                                 *)
persisted_rolled_back(rows, names) ==
  {f \in rows : \A k \in DOMAIN names : f.name # names[k]}

(* The rows after upload_file raised on a later element, names being the   *)
(* rows the request created before: create_file committed each of them.    *)
persisted(rows, names) == rows

(* The commit of a file row: the foreign key institutions.id is checked.   *)
commit_ok(row) == row.institution_id \in institution_ids

rows_named(rows, file_name_) == {f \in rows : f.name = file_name_}

(* A variant that does not look at the file system.                        *)
get_file_or_404_row_only(rows, fs, file_name_, file_label) ==
  IF rows_named(rows, file_name_) = {}
    THEN [status |-> 404, detail |-> file_label \o " not found", file |-> {}]
  ELSE [status |-> 200, detail |-> "", file |-> rows_named(rows, file_name_)]

(* A variant that answers a missing file like a missing row.               *)
get_file_or_404_one_message(rows, fs, file_name_, file_label) ==
  IF \A f \in rows_named(rows, file_name_) : ~exists(fs, f.path)
    THEN [status |-> 404, detail |-> file_label \o " not found", file |-> {}]
  ELSE [status |-> 200, detail |-> "", file |-> rows_named(rows, file_name_)]

(* _get_file_or_404 *)
get_file_or_404(rows, fs, file_name_, file_label) ==
  IF rows_named(rows, file_name_) = {}
    THEN [status |-> 404, detail |-> file_label \o " not found", file |-> {}]
  ELSE IF \A f \in rows_named(rows, file_name_) : ~exists(fs, f.path)
    THEN [status |-> 404, detail |-> file_label \o " found in DB but missing in filesystem",
          file |-> {}]
  ELSE [status |-> 200, detail |-> "", file |-> rows_named(rows, file_name_)]

(* ------------------------------ state --------------------------------- *)

Init ==
  /\ institutions = {}
  /\ geofiles = {}
  /\ imagefiles = {}
  /\ files = <<>>
  /\ nextUuid = 1
  /\ now = 1
  /\ batch = NoBatch
  /\ last = Response
  /\ calls = <<>>

(* No request is being handled and the last answer has been sent.          *)
idle == ~batch.open /\ last.op = "none"

(* The answer of the handler leaves the server.                            *)
respond ==
  /\ ~batch.open
  /\ last.op # "none"
  /\ last' = Response
  /\ UNCHANGED <<institutions, geofiles, imagefiles, files, nextUuid, now, batch, calls>>

(* --------------------- routers/institution.py ------------------------- *)

create_institution(name) ==
  /\ idle
  /\ nextUuid <= MaxUuid
  /\ IF institution_exists(name)
       THEN /\ last' = [Response EXCEPT !.op = "create_institution", !.status = 400,
                                        !.institution_name = name,
                                        !.detail = "Institution already exists"]
            /\ UNCHANGED <<institutions, nextUuid>>
       ELSE /\ institutions' = institutions \cup {[id |-> nextUuid, name |-> name]}
            /\ nextUuid' = nextUuid + 1
            /\ last' = [Response EXCEPT !.op = "create_institution", !.status = 201,
                                        !.institution_name = name, !.inst = nextUuid]
  /\ UNCHANGED <<geofiles, imagefiles, files, now, batch, calls>>

(* CRUDService.delete_institution reads institution.geo_file.path and then *)
(* institution.image_file.path: a missing relation is None, and the        *)
(* attribute error ends the request with 500 before the commit.            *)
delete_institution(institution_id) ==
  LET geo == {f \in geofiles : f.institution_id = institution_id}
      image == {f \in imagefiles : f.institution_id = institution_id}
      geo_file == CHOOSE f \in geo : TRUE
      image_file == CHOOSE f \in image : TRUE
      answer == [Response EXCEPT !.op = "delete_institution", !.inst = institution_id]
  IN  /\ idle
      /\ IF institution_id \notin institution_ids
           THEN /\ last' = [answer EXCEPT !.status = 404, !.detail = "Institution not found"]
                /\ UNCHANGED <<institutions, geofiles, imagefiles, files>>
         ELSE IF geo = {}
           THEN /\ last' = [answer EXCEPT !.status = 500, !.detail = "Internal Server Error"]
                /\ UNCHANGED <<institutions, geofiles, imagefiles, files>>
         ELSE IF image = {}
           THEN /\ files' = FileHandler_delete_file(files, geo_file.path)
                /\ last' = [answer EXCEPT !.status = 500, !.detail = "Internal Server Error"]
                /\ UNCHANGED <<institutions, geofiles, imagefiles>>
         ELSE /\ files' = FileHandler_delete_file(
                            FileHandler_delete_file(files, geo_file.path), image_file.path)
              /\ institutions' = {i \in institutions : i.id # institution_id}
              /\ geofiles' = geofiles \ geo
              /\ imagefiles' = imagefiles \ image
              /\ last' = [answer EXCEPT !.status = 200,
                                        !.detail = "Institution deleted successfully"]
      /\ UNCHANGED <<nextUuid, now, batch, calls>>

(* ------------------------- routers/files.py --------------------------- *)

(* One turn of upload_file's loop over the files of a request for          *)
(* institution_id: the first element opens the request, a raised           *)
(* HTTPException ends it.  The answer carries the lists geo_files and      *)
(* image_files as they stand when the element is taken.                    *)
upload_file(institution_id, file) ==
  LET is_geo == file.content_type \in GEO_MIME_TYPES
      answer == [Response EXCEPT !.op = "upload_file", !.inst = institution_id,
                                 !.upload = file,
                                 !.kind = IF is_geo THEN "geo" ELSE "image",
                                 !.geo_files = batch.geo_files,
                                 !.image_files = batch.image_files]
  IN  /\ IF batch.open THEN batch.inst = institution_id ELSE idle
      /\ Len(batch.geo_files) + Len(batch.image_files) < MaxBatch
      /\ nextUuid <= MaxUuid
      /\ now <= MaxClock
      /\ IF file.content_type \notin ALLOWED_MIME_TYPES
           THEN /\ last' = [answer EXCEPT !.status = 400, !.detail = "Invalid file type"]
                /\ batch' = NoBatch
                /\ geofiles' = persisted(geofiles, batch.geo_files)
                /\ imagefiles' = persisted(imagefiles, batch.image_files)
                /\ UNCHANGED <<files, nextUuid, now>>
         ELSE IF file_exists(institution_id, is_geo)
           THEN /\ last' = [answer EXCEPT !.status = 400,
                                          !.detail = "File already exists for institution"]
                /\ batch' = NoBatch
                /\ geofiles' = persisted(geofiles, batch.geo_files)
                /\ imagefiles' = persisted(imagefiles, batch.image_files)
                /\ UNCHANGED <<files, nextUuid, now>>
         ELSE \E saved \in {save_file(files, file, nextUuid, fault) : fault \in Faults} :
                LET row == new_file(saved.fs, file, saved.path, institution_id, now)
                IN  IF saved.status # 200
                      THEN /\ files' = saved.fs
                           /\ nextUuid' = IF saved.fs = files THEN nextUuid
                                          ELSE nextUuid + 1
                           /\ last' = [answer EXCEPT
                                         !.status = saved.status, !.detail = saved.detail,
                                         !.failed = saved.failed,
                                         !.closed = finally_close(saved.status),
                                         !.path = get_upload_path(file, nextUuid)]
                           /\ batch' = NoBatch
                           /\ geofiles' = persisted(geofiles, batch.geo_files)
                           /\ imagefiles' = persisted(imagefiles, batch.image_files)
                           /\ UNCHANGED now
                    ELSE IF ~commit_ok(row)
                      THEN /\ files' = saved.fs
                           /\ nextUuid' = nextUuid + 1
                           /\ last' = [answer EXCEPT
                                         !.status = 500, !.detail = "Internal Server Error",
                                         !.closed = finally_close(saved.status),
                                         !.path = saved.path]
                           /\ batch' = NoBatch
                           /\ geofiles' = persisted(geofiles, batch.geo_files)
                           /\ imagefiles' = persisted(imagefiles, batch.image_files)
                           /\ UNCHANGED now
                    ELSE /\ files' = saved.fs
                         /\ nextUuid' = nextUuid + 1
                         /\ now' = now + 1
                         /\ geofiles' = IF is_geo THEN geofiles \cup {row} ELSE geofiles
                         /\ imagefiles' = IF is_geo THEN imagefiles
                                          ELSE imagefiles \cup {row}
                         /\ last' = [answer EXCEPT !.status = 200, !.path = saved.path,
                                                   !.closed = finally_close(saved.status),
                                                   !.name = row.name]
                         /\ batch' =
                              [open |-> TRUE, inst |-> institution_id,
                               geo_files |-> IF is_geo
                                               THEN Append(batch.geo_files, row.name)
                                               ELSE batch.geo_files,
                               image_files |-> IF is_geo THEN batch.image_files
                                               ELSE Append(batch.image_files, row.name)]
      /\ UNCHANGED <<institutions, calls>>

(* The end of upload_file's loop: the 201 answer with the created records. *)
upload_file_return ==
  /\ batch.open
  /\ last' = [Response EXCEPT !.op = "upload_file_return", !.status = 201,
                              !.detail = "Files uploaded successfully",
                              !.inst = batch.inst, !.geo_files = batch.geo_files,
                              !.image_files = batch.image_files]
  /\ batch' = NoBatch
  /\ UNCHANGED <<institutions, geofiles, imagefiles, files, nextUuid, now, calls>>

get_file(file_type, file_name_) ==
  LET geo == get_file_or_404(geofiles, files, file_name_, "GeoFile")
      image == get_file_or_404(imagefiles, files, file_name_, "ImageFile")
      geo_file == CHOOSE f \in geo.file : TRUE
      image_file == CHOOSE f \in image.file : TRUE
      answer == [Response EXCEPT !.op = "get_file", !.kind = file_type, !.name = file_name_]
  IN  /\ idle
      /\ \E fault \in {"none", "read"} :
         LET content == load_geojson_content(files, geo_file.path, fault)
         IN
         last' =
           IF file_type = "geo"
             THEN IF geo.status # 200
                    THEN [answer EXCEPT !.status = geo.status, !.detail = geo.detail]
                  ELSE [answer EXCEPT !.status = content.status, !.detail = content.detail,
                                      !.body = content.body, !.path = geo_file.path,
                                      !.failed = content.failed]
           ELSE IF file_type = "image"
             THEN IF image.status # 200
                    THEN [answer EXCEPT !.status = image.status, !.detail = image.detail]
                  ELSE [answer EXCEPT !.status = 200, !.raw = files[image_file.path],
                                      !.media_type = image_file.content_type,
                                      !.path = image_file.path]
           ELSE [answer EXCEPT !.status = 400, !.detail = "Invalid file type."]
      /\ UNCHANGED <<institutions, geofiles, imagefiles, files, nextUuid, now, batch, calls>>

update_file(file_type, file_name_, file) ==
  LET is_geo == file_type = "geo"
      rows == IF is_geo THEN geofiles ELSE imagefiles
      found == get_file_or_404(rows, files, file_name_,
                               IF is_geo THEN "Geo File" ELSE "Image File")
      existing_file == CHOOSE f \in found.file : TRUE
      updated == [existing_file EXCEPT !.updated_at = now]
      answer == [Response EXCEPT !.op = "update_file", !.kind = file_type,
                                 !.name = file_name_, !.upload = file]
  IN  /\ idle
      /\ nextUuid <= MaxUuid
      /\ now <= MaxClock
      /\ IF file_type \notin {"geo", "image"}
           THEN /\ last' = [answer EXCEPT
                              !.status = 400,
                              !.detail = "Invalid file type. Must be 'geo' or 'image'."]
                /\ UNCHANGED <<geofiles, imagefiles, files, nextUuid, now>>
         ELSE IF file.content_type \notin ALLOWED_MIME_TYPES
           THEN /\ last' = [answer EXCEPT !.status = 400, !.detail = "Invalid file type"]
                /\ UNCHANGED <<geofiles, imagefiles, files, nextUuid, now>>
         ELSE IF found.status # 200
           THEN /\ last' = [answer EXCEPT !.status = found.status, !.detail = found.detail]
                /\ UNCHANGED <<geofiles, imagefiles, files, nextUuid, now>>
         ELSE \E over \in {overwrite_file(files, file, existing_file.path, nextUuid, fault) :
                             fault \in Faults} :
                IF over.status # 200
                  THEN /\ files' = over.fs
                       /\ nextUuid' = IF over.fs = files THEN nextUuid ELSE nextUuid + 1
                       /\ last' = [answer EXCEPT
                                     !.status = over.status, !.detail = over.detail,
                                     !.closed = finally_close(over.status),
                                     !.failed = over.failed, !.path = existing_file.path]
                       /\ UNCHANGED <<geofiles, imagefiles, now>>
                  ELSE /\ files' = over.fs
                       /\ nextUuid' = nextUuid + 1
                       /\ now' = now + 1
                       /\ geofiles' = IF is_geo
                                        THEN (geofiles \ {existing_file}) \cup {updated}
                                        ELSE geofiles
                       /\ imagefiles' = IF is_geo THEN imagefiles
                                        ELSE (imagefiles \ {existing_file}) \cup {updated}
                       /\ last' = [answer EXCEPT !.status = 200,
                                                 !.closed = finally_close(over.status),
                                                 !.path = existing_file.path]
      /\ UNCHANGED <<institutions, batch, calls>>

delete_file(file_type, file_name_) ==
  LET is_geo == file_type = "geo"
      rows == IF is_geo THEN geofiles ELSE imagefiles
      found == get_file_or_404(rows, files, file_name_,
                               IF is_geo THEN "GeoFile" ELSE "ImageFile")
      file == CHOOSE f \in found.file : TRUE
      answer == [Response EXCEPT !.op = "delete_file", !.kind = file_type,
                                 !.name = file_name_]
  IN  /\ idle
      /\ IF file_type \notin {"geo", "image"}
           THEN /\ last' = [answer EXCEPT
                              !.status = 400,
                              !.detail = "Invalid file type. Must be 'geo' or 'image'."]
                /\ UNCHANGED <<geofiles, imagefiles, files>>
         ELSE IF found.status # 200
           THEN /\ last' = [answer EXCEPT !.status = found.status, !.detail = found.detail]
                /\ UNCHANGED <<geofiles, imagefiles, files>>
         ELSE /\ files' = FileHandler_delete_file(files, file.path)
              /\ geofiles' = IF is_geo THEN geofiles \ {file} ELSE geofiles
              /\ imagefiles' = IF is_geo THEN imagefiles ELSE imagefiles \ {file}
              /\ last' = [answer EXCEPT !.status = 200, !.detail = "deleted successfully",
                                        !.path = file.path]
      /\ UNCHANGED <<institutions, nextUuid, now, batch, calls>>

(* ------------------------------ the system ---------------------------- *)

(* The ids and names a request may carry: those in use and one that is not. *)
KnownInstitutions == institution_ids \cup {NoInstitution}

KnownNames == {f.name : f \in geofiles \cup imagefiles} \cup {NoName}

(* A request that names no institution or no file of the server, or a kind *)
(* the server does not have, carries one file of each declared type.       *)
Probes ==
  {file \in UploadFiles :
     file.filename = <<"a", ".", "p", "n", "g">> /\ file.content = GEOJSON_BYTES}

UploadsTo(id) == IF id = NoInstitution THEN Probes ELSE UploadFiles

UpdatesOf(kind, name) ==
  IF kind \in {"geo", "image"} /\ name # NoName THEN UploadFiles ELSE Probes

Next ==
  \/ respond
  \/ \E name \in InstitutionNames : create_institution(name)
  \/ \E id \in KnownInstitutions : delete_institution(id)
  \/ \E id \in KnownInstitutions : \E file \in UploadsTo(id) : upload_file(id, file)
  \/ upload_file_return
  \/ \E kind \in FileKinds, name \in KnownNames : get_file(kind, name)
  \/ \E kind \in FileKinds, name \in KnownNames :
       \E file \in UpdatesOf(kind, name) : update_file(kind, name, file)
  \/ \E kind \in FileKinds, name \in KnownNames : delete_file(kind, name)

Spec == Init /\ [][Next]_vars

(* ------------------- FileHandler, call by call ------------------------ *)

(* The storage a call of FileHandler may find: each of MaxStored paths is  *)
(* absent or holds one of the contents.                                    *)
MaxStored == 2

StorePaths ==
  {[dir |-> GEO_JSON_DIR, hidden |-> FALSE, uuid |-> u, suffix |-> GEOJSON_SUFFIX] :
     u \in 1..MaxStored}

StoreContents ==
  {EMPTY, GEOJSON_BYTES, NOTYPE_BYTES, LIST_BYTES, VALID_KML_CONTENT, IMAGE_CONTENT}

Stores == UNION {[D -> StoreContents] : D \in SUBSET StorePaths}

StoreInit ==
  /\ files \in Stores
  /\ institutions = {}
  /\ geofiles = {}
  /\ imagefiles = {}
  /\ nextUuid = MaxStored + 1
  /\ now = 1
  /\ batch = NoBatch
  /\ last = Response
  /\ calls = <<>>

(* A call of FileHandler.load_geojson_content and what it answers.         *)
FileStore_load(file_path, fault) ==
  LET content == load_geojson_content(files, file_path, fault)
  IN  /\ last' = [Response EXCEPT !.op = "load_geojson_content", !.path = file_path,
                                  !.status = content.status, !.detail = content.detail,
                                  !.body = content.body, !.failed = content.failed]
      /\ UNCHANGED <<institutions, geofiles, imagefiles, files, nextUuid, now, batch, calls>>

(* A call of FileHandler.delete_file; the detail is the line it logs.      *)
FileStore_delete(file_path) ==
  /\ files' = FileHandler_delete_file(files, file_path)
  /\ last' = [Response EXCEPT
                !.op = "delete_file", !.path = file_path, !.status = 200,
                !.detail = IF exists(files, file_path) THEN "Deleted file"
                           ELSE "Attempted to delete non-existent file"]
  /\ UNCHANGED <<institutions, geofiles, imagefiles, nextUuid, now, batch, calls>>

StoreNext ==
  \/ \E file_path \in StorePaths, fault \in {"none", "read"} : FileStore_load(file_path, fault)
  \/ \E file_path \in StorePaths : FileStore_delete(file_path)

StoreSpec == StoreInit /\ [][StoreNext]_vars

(* ------------------- FileHandler, step by step ------------------------ *)

(* Calls of FileHandler run interleaved: each await of a call ends a step. *)
(* The storage holds the geo file of one institution, as upload_file left  *)
(* it; the calls overwrite and read that file.                             *)
MaxCalls == 3

TargetUpload ==
  [filename |-> <<"a", ".", "p", "n", "g">>, content_type |-> "application/geo+json",
   content |-> GEOJSON_BYTES]

RaceInstitution == [id |-> 1, name |-> "ABU"]

Target == get_upload_path(TargetUpload, RaceInstitution.id + 1)

(* The uploads of the calls: one stored as it is, one converted, one whose *)
(* conversion fails.                                                       *)
RaceUploads ==
  {file \in UploadFiles :
     /\ file.content_type = "application/geo+json"
     /\ suffix(file.filename) # <<>>
     /\ \/ file.content = VALID_KML_CONTENT
        \/ file.content = NOFEATURE_KML_CONTENT /\ is_kml(file)}

Call(op, file) ==
  [op |-> op, pc |-> "called", file |-> file, path |-> NoPath, observed |-> EMPTY,
   wrote |-> {}]

RaceInit ==
  /\ institutions = {RaceInstitution}
  /\ files = write(<<>>, Target, TargetUpload.content)
  /\ geofiles = {new_file(files, TargetUpload, Target, RaceInstitution.id, 1)}
  /\ imagefiles = {}
  /\ nextUuid = Target.uuid + 1
  /\ now = 2
  /\ batch = NoBatch
  /\ last = Response
  /\ calls = <<>>

at(c, op, pc) == c \in DOMAIN calls /\ calls[c].op = op /\ calls[c].pc = pc

RaceUnchanged == UNCHANGED <<institutions, geofiles, imagefiles, now, batch>>

(* A request begins a call of overwrite_file on the target.                *)
call_overwrite(file) ==
  /\ Len(calls) < MaxCalls
  /\ calls' = Append(calls, Call("overwrite_file", file))
  /\ UNCHANGED <<files, nextUuid, last>>
  /\ RaceUnchanged

(* overwrite_file, to the open of the temporary file.                      *)
ow_open(c) ==
  LET temp_file_path == [dir |-> Target.dir, hidden |-> TRUE, uuid |-> nextUuid,
                         suffix |-> TMP_SUFFIX]
      opened == opened_for_write(Target, temp_file_path)
  IN  /\ at(c, "overwrite_file", "called")
      /\ files' = write(files, opened, EMPTY)
      /\ nextUuid' = nextUuid + 1
      /\ calls' = [calls EXCEPT ![c].pc = "write", ![c].path = opened,
                                ![c].wrote = {opened}]
      /\ UNCHANGED last
      /\ RaceUnchanged

(* The loop that reads the upload and writes it to the open file.          *)
ow_write(c) ==
  /\ at(c, "overwrite_file", "write")
  /\ files' = write(files, calls[c].path, calls[c].file.content)
  /\ calls' = [calls EXCEPT ![c].pc = IF is_kml(calls[c].file) THEN "convert" ELSE "move"]
  /\ UNCHANGED <<nextUuid, last>>
  /\ RaceUnchanged

(* The conversion of a .kml upload: only this call knows the two names.    *)
ow_convert(c) ==
  LET output_filepath == with_suffix(calls[c].path, GEOJSON_SUFFIX)
      conv == convert_and_save_kml_to_geojson(files, calls[c].path, output_filepath, "none")
  IN  /\ at(c, "overwrite_file", "convert")
      /\ exists(files, calls[c].path)
      /\ files' = conv.fs
      /\ calls' = IF conv.exc = "None"
                    THEN [calls EXCEPT ![c].pc = "move", ![c].path = output_filepath,
                                       ![c].wrote = @ \cup {output_filepath}]
                    ELSE [calls EXCEPT ![c].pc = "except"]
      /\ UNCHANGED <<nextUuid, last>>
      /\ RaceUnchanged

(* shutil.move of the temporary file onto the target.                      *)
ow_move(c) ==
  /\ at(c, "overwrite_file", "move")
  /\ exists(files, calls[c].path)
  /\ files' = move(files, calls[c].path, Target)
  /\ calls' = [calls EXCEPT ![c].pc = "done", ![c].wrote = @ \cup {Target}]
  /\ last' = [Response EXCEPT !.op = "overwrite_file", !.status = 200,
                              !.upload = calls[c].file, !.path = Target]
  /\ UNCHANGED nextUuid
  /\ RaceUnchanged

(* The except clause: the temporary file is removed, 500 is raised.        *)
ow_except(c) ==
  /\ at(c, "overwrite_file", "except")
  /\ files' = overwrite_cleanup(files, calls[c].path)
  /\ calls' = [calls EXCEPT ![c].pc = "failed"]
  /\ UNCHANGED <<nextUuid, last>>
  /\ RaceUnchanged

(* A request begins a call of load_geojson_content on the target.          *)
call_read ==
  /\ Len(calls) < MaxCalls
  /\ calls' = Append(calls, Call("load_geojson_content", NoUpload))
  /\ UNCHANGED <<files, nextUuid, last>>
  /\ RaceUnchanged

(* load_geojson_content, the test that the path exists.                    *)
rd_exists(c) ==
  /\ at(c, "load_geojson_content", "called")
  /\ calls' = IF exists(files, Target)
                THEN [calls EXCEPT ![c].pc = "read", ![c].path = Target]
                ELSE [calls EXCEPT ![c].pc = "done", ![c].observed = "FileNotFoundError"]
  /\ UNCHANGED <<files, nextUuid, last>>
  /\ RaceUnchanged

(* The open and the read of the file.                                      *)
rd_read(c) ==
  /\ at(c, "load_geojson_content", "read")
  /\ calls' = [calls EXCEPT ![c].pc = "done",
                            ![c].observed = IF exists(files, Target) THEN files[Target]
                                            ELSE "FileNotFoundError"]
  /\ UNCHANGED <<files, nextUuid, last>>
  /\ RaceUnchanged

RaceNext ==
  \/ \E file \in RaceUploads : call_overwrite(file)
  \/ \E c \in DOMAIN calls : ow_open(c)
  \/ \E c \in DOMAIN calls : ow_write(c)
  \/ \E c \in DOMAIN calls : ow_convert(c)
  \/ \E c \in DOMAIN calls : ow_move(c)
  \/ \E c \in DOMAIN calls : ow_except(c)
  \/ call_read
  \/ \E c \in DOMAIN calls : rd_exists(c)
  \/ \E c \in DOMAIN calls : rd_read(c)

RaceSpec == RaceInit /\ [][RaceNext]_vars

(* ------------------ create_file, step by step ------------------------- *)

(* A request begins a call of CRUDService.create_file for the institution. *)
call_create(file) ==
  /\ Len(calls) < MaxCalls
  /\ calls' = Append(calls, Call("create_file", file))
  /\ UNCHANGED <<files, nextUuid, last>>
  /\ RaceUnchanged

(* save_file, the path it allocates.                                       *)
sv_path(c) ==
  /\ at(c, "create_file", "called")
  /\ nextUuid' = nextUuid + 1
  /\ calls' = [calls EXCEPT ![c].pc = "write",
                            ![c].path = get_upload_path(calls[c].file, nextUuid)]
  /\ UNCHANGED <<files, last>>
  /\ RaceUnchanged

(* The read of the upload and the write of its bytes.                      *)
sv_write(c) ==
  /\ at(c, "create_file", "write")
  /\ files' = write(files, calls[c].path, calls[c].file.content)
  /\ calls' = [calls EXCEPT ![c].pc = IF is_kml(calls[c].file) THEN "convert" ELSE "commit",
                            ![c].wrote = @ \cup {calls[c].path}]
  /\ UNCHANGED <<nextUuid, last>>
  /\ RaceUnchanged

(* The conversion of a .kml upload beside the allocated path.              *)
sv_convert(c) ==
  LET output_filepath == with_suffix(calls[c].path, GEOJSON_SUFFIX)
      conv == convert_and_save_kml_to_geojson(files, calls[c].path, output_filepath, "none")
  IN  /\ at(c, "create_file", "convert")
      /\ exists(files, calls[c].path)
      /\ files' = conv.fs
      /\ calls' = IF conv.exc = "None"
                    THEN [calls EXCEPT ![c].pc = "commit", ![c].path = output_filepath,
                                       ![c].wrote = @ \cup {output_filepath}]
                    ELSE [calls EXCEPT ![c].pc = "failed"]
      /\ UNCHANGED <<nextUuid, last>>
      /\ RaceUnchanged

(* create_file adds the row of the saved file and commits.                 *)
sv_commit(c) ==
  LET row == new_file(files, calls[c].file, calls[c].path, RaceInstitution.id, now)
  IN  /\ at(c, "create_file", "commit")
      /\ exists(files, calls[c].path)
      /\ geofiles' = geofiles \cup {row}
      /\ now' = now + 1
      /\ calls' = [calls EXCEPT ![c].pc = "done"]
      /\ last' = [Response EXCEPT !.op = "create_file", !.status = 200,
                                  !.upload = calls[c].file, !.path = calls[c].path,
                                  !.name = row.name]
      /\ UNCHANGED <<institutions, imagefiles, files, nextUuid, batch>>

SaveNext ==
  \/ \E file \in RaceUploads : call_create(file)
  \/ \E c \in DOMAIN calls : sv_path(c)
  \/ \E c \in DOMAIN calls : sv_write(c)
  \/ \E c \in DOMAIN calls : sv_convert(c)
  \/ \E c \in DOMAIN calls : sv_commit(c)

SaveSpec == RaceInit /\ [][SaveNext]_vars

(* ------------------ upload_file, step by step ------------------------- *)

(* The institution has no file yet.                                        *)
UploadInit ==
  /\ institutions = {RaceInstitution}
  /\ files = <<>>
  /\ geofiles = {}
  /\ imagefiles = {}
  /\ nextUuid = RaceInstitution.id + 1
  /\ now = 1
  /\ batch = NoBatch
  /\ last = Response
  /\ calls = <<>>

(* A request with one file for the institution begins: upload_file runs to *)
(* its first await, the call of create_file, or raises before it.          *)
up_begin(file) ==
  LET is_geo == file.content_type \in GEO_MIME_TYPES
  IN  /\ Len(calls) < MaxCalls
      /\ calls' = Append(calls,
                    IF file.content_type \notin ALLOWED_MIME_TYPES
                         \/ file_exists(RaceInstitution.id, is_geo)
                      THEN [Call("upload_file", file) EXCEPT !.pc = "rejected"]
                      ELSE Call("create_file", file))
      /\ UNCHANGED <<files, nextUuid, last>>
      /\ RaceUnchanged

UploadNext ==
  \/ \E file \in RaceUploads : up_begin(file)
  \/ \E c \in DOMAIN calls : sv_path(c)
  \/ \E c \in DOMAIN calls : sv_write(c)
  \/ \E c \in DOMAIN calls : sv_convert(c)
  \/ \E c \in DOMAIN calls : sv_commit(c)

UploadSpec == UploadInit /\ [][UploadNext]_vars

(* ------------ update_file and delete_file, step by step --------------- *)

(* A request to replace the geo file begins: update_file runs through      *)
(* _get_file_or_404 to the call of overwrite_file, or raises before it.    *)
call_update(file) ==
  LET found == get_file_or_404(geofiles, files, file_name(Target), "Geo File")
  IN  /\ Len(calls) < MaxCalls
      /\ calls' = Append(calls,
                    IF file.content_type \notin ALLOWED_MIME_TYPES \/ found.status # 200
                      THEN [Call("update_file", file) EXCEPT !.pc = "returned",
                                                             !.observed = found.detail]
                      ELSE Call("overwrite_file", file))
      /\ UNCHANGED <<files, nextUuid, last>>
      /\ RaceUnchanged

(* CRUDService.update_file after overwrite_file returned: updated_at is    *)
(* set on the row it read and the session commits; the UPDATE of a row     *)
(* another session deleted matches nothing.                                *)
ud_commit(c) ==
  LET rows == {f \in geofiles : f.path = Target}
  IN  /\ at(c, "overwrite_file", "done")
      /\ geofiles' = (geofiles \ rows) \cup {[f EXCEPT !.updated_at = now] : f \in rows}
      /\ now' = now + 1
      /\ calls' = [calls EXCEPT ![c].pc = "returned",
                                ![c].observed = IF rows = {} THEN "StaleDataError" ELSE EMPTY]
      /\ UNCHANGED <<institutions, imagefiles, files, nextUuid, batch, last>>

(* A request to delete the geo file begins: delete_geo_file runs through   *)
(* _get_file_or_404 to the call of FileHandler.delete_file.                *)
call_delete ==
  LET found == get_file_or_404(geofiles, files, file_name(Target), "GeoFile")
  IN  /\ Len(calls) < MaxCalls
      /\ calls' = Append(calls,
                    IF found.status # 200
                      THEN [Call("delete_file", NoUpload) EXCEPT !.pc = "returned",
                                                                 !.observed = found.detail]
                      ELSE [Call("delete_file", NoUpload) EXCEPT !.path = Target])
      /\ UNCHANGED <<files, nextUuid, last>>
      /\ RaceUnchanged

(* FileHandler.delete_file removes the file if it is there.                *)
dl_remove(c) ==
  /\ at(c, "delete_file", "called")
  /\ files' = FileHandler_delete_file(files, calls[c].path)
  /\ calls' = [calls EXCEPT ![c].pc = "commit"]
  /\ UNCHANGED <<nextUuid, last>>
  /\ RaceUnchanged

(* _delete_file deletes the row and commits.                               *)
dl_commit(c) ==
  /\ at(c, "delete_file", "commit")
  /\ geofiles' = {f \in geofiles : f.path # calls[c].path}
  /\ calls' = [calls EXCEPT ![c].pc = "returned"]
  /\ last' = [Response EXCEPT !.op = "delete_file", !.kind = "geo", !.status = 200,
                              !.detail = "deleted successfully", !.path = calls[c].path]
  /\ UNCHANGED <<institutions, imagefiles, files, nextUuid, now, batch>>

UpdateDeleteNext ==
  \/ \E file \in RaceUploads : call_update(file)
  \/ \E c \in DOMAIN calls : ow_open(c)
  \/ \E c \in DOMAIN calls : ow_write(c)
  \/ \E c \in DOMAIN calls : ow_convert(c)
  \/ \E c \in DOMAIN calls : ow_move(c)
  \/ \E c \in DOMAIN calls : ow_except(c)
  \/ \E c \in DOMAIN calls : ud_commit(c)
  \/ call_delete
  \/ \E c \in DOMAIN calls : dl_remove(c)
  \/ \E c \in DOMAIN calls : dl_commit(c)

UpdateDeleteSpec == RaceInit /\ [][UpdateDeleteNext]_vars

(* ============================ properties ============================== *)

(* The answers of upload_file that come from save_file's failure, and      *)
(* those given after save_file returned a path.                            *)
SaveFailureDetails ==
  { "File has no extension", "Empty file uploaded", "Could not save file on server",
    "Error processing KML file: Invalid KML structure or encoding",
    "Error processing KML file: KML to GeoJSON conversion failed" }

SaveFailed(answer) == answer.op = "upload_file" /\ answer.detail \in SaveFailureDetails

SaveReturned(answer) ==
  answer.op = "upload_file" /\ (answer.status = 200 \/ answer.detail = "Internal Server Error")

OverwriteFailed(answer) ==
  answer.op = "update_file" /\ answer.status = 500 /\ answer.path # NoPath

Created(fs1, fs2) == DOMAIN fs2 \ DOMAIN fs1

(* C1: when overwrite_file fails, the target keeps its content and no file *)
(* the call created (the .tmp file or its .geojson sibling) remains.       *)
C1_OverwriteAllOrNothing ==
  [][OverwriteFailed(last') =>
       /\ exists(files', last'.path)
       /\ files'[last'.path] = files[last'.path]
       /\ Created(files, files') = {}]_vars

(* C2: when save_file fails, no file the call created remains in storage.  *)
C2_SaveFailureLeavesNoFile ==
  [][SaveFailed(last') => Created(files, files') = {}]_vars

(* C3: every institution has at most one GeoFile row and one ImageFile     *)
(* row, and an upload of a kind the institution already has is answered    *)
(* 400 "already exists" and creates no row and no file.                    *)
AtMostOnePerKind ==
  \A rows \in {geofiles, imagefiles} :
    \A f, g \in rows : f.institution_id = g.institution_id => f = g

C3_DuplicateRejected ==
  (last'.op = "upload_file"
     /\ last'.upload.content_type \in ALLOWED_MIME_TYPES
     /\ \E f \in (IF last'.kind = "geo" THEN geofiles ELSE imagefiles) :
          f.institution_id = last'.inst)
  => /\ last'.status = 400
     /\ last'.detail = "File already exists for institution"
     /\ geofiles' = geofiles
     /\ imagefiles' = imagefiles
     /\ files' = files

C3_AtMostOneFilePerKind ==
  [][AtMostOnePerKind /\ AtMostOnePerKind' /\ C3_DuplicateRejected]_vars

C3_Witness ==
  /\ last.op = "upload_file"
  /\ last.detail = "File already exists for institution"
  /\ \E f \in geofiles : f.institution_id = last.inst
  /\ \E i \in institutions : i.id = last.inst

(* C4: a successful save of an upload whose extension is not .kml adds     *)
(* exactly one file: in the directory of the upload's classification,      *)
(* named by a fresh uuid and the original extension, holding the uploaded  *)
(* bytes.                                                                  *)
NotKml(file) == lower(suffix(file.filename)) # KML_SUFFIX

C4_PlainSaveWritesUpload ==
  [][(SaveReturned(last') /\ NotKml(last'.upload)) =>
       /\ Created(files, files') = {last'.path}
       /\ \A q \in DOMAIN files : files'[q] = files[q]
       /\ last'.path.dir = (IF classify(last'.upload.content_type) = "Geo"
                              THEN GEO_JSON_DIR ELSE IMAGE_DIR)
       /\ last'.path.uuid = nextUuid
       /\ ~last'.path.hidden
       /\ last'.path.suffix = suffix(last'.upload.filename)
       /\ files'[last'.path] = last'.upload.content]_vars

C4_Witness ==
  /\ last.op = "upload_file"
  /\ last.status = 200
  /\ last.upload.content_type = "image/png"
  /\ last.path.suffix = <<".", "p", "n", "g">>
  /\ last.path.dir = IMAGE_DIR
  /\ files[last.path] = GEOJSON_BYTES

(* C5: a successful save of a .kml upload (any letter case) returns        *)
(* "<uuid>.geojson" beside the allocated path, which holds the converted   *)
(* GeoJSON; the raw .kml file is gone and exactly one file was added.      *)
KmlSaved(fs1, fs2, answer, id) ==
  /\ answer.path.suffix = GEOJSON_SUFFIX
  /\ answer.path.uuid = id
  /\ ~answer.path.hidden
  /\ exists(fs2, answer.path)
  /\ json_loads(fs2[answer.path]).ok
  /\ json_loads(fs2[answer.path]).value = kml_convert(answer.upload.content).result
  /\ ~exists(fs2, with_suffix(answer.path, suffix(answer.upload.filename)))
  /\ Created(fs1, fs2) = {answer.path}
  /\ \A q \in DOMAIN fs1 : fs2[q] = fs1[q]

(* As claimed: the file always lies in the geo directory.                  *)
C5_KmlSavedInGeoDirectory ==
  [][(SaveReturned(last') /\ ~NotKml(last'.upload)) =>
       /\ KmlSaved(files, files', last', nextUuid)
       /\ last'.path.dir = GEO_JSON_DIR]_vars

(* As amended: the file lies in the directory of the upload's              *)
(* classification, the geo directory for a geo type only.                  *)
C5_KmlSavedBesideUpload ==
  [][(SaveReturned(last') /\ ~NotKml(last'.upload)) =>
       /\ KmlSaved(files, files', last', nextUuid)
       /\ last'.path.dir = (IF classify(last'.upload.content_type) = "Geo"
                              THEN GEO_JSON_DIR ELSE IMAGE_DIR)]_vars

C5_Witness ==
  /\ last.op = "upload_file"
  /\ last.status = 200
  /\ last.upload.filename = <<"d", ".", "K", "M", "L">>
  /\ last.path.suffix = GEOJSON_SUFFIX
  /\ files[last.path] = CONVERTED_BYTES

(* C6: a .kml upload that is malformed or converts to an empty result is   *)
(* answered 400 with "Invalid KML structure or encoding"; neither the raw  *)
(* file nor a .geojson output is left, storage and rows are as before.     *)
RouterRejections == {"Invalid file type", "File already exists for institution"}

ReachedSave(answer) == answer.op = "upload_file" /\ answer.detail \notin RouterRejections

BadKml(bytes) ==
  \/ kml_convert(bytes).exc = "ExpatError"
  \/ kml_convert(bytes).exc = "None" /\ kml_convert(bytes).result = ""

C6_BadKmlRejected ==
  [][(/\ ReachedSave(last')
      /\ ~NotKml(last'.upload)
      /\ last'.upload.content # EMPTY
      /\ last'.failed = "none"
      /\ BadKml(last'.upload.content)) =>
       /\ last'.status = 400
       /\ last'.detail = "Error processing KML file: Invalid KML structure or encoding"
       /\ ~exists(files', last'.path)
       /\ ~exists(files', with_suffix(last'.path, GEOJSON_SUFFIX))
       /\ files' = files
       /\ geofiles' = geofiles
       /\ imagefiles' = imagefiles]_vars

C6_Witness ==
  /\ last.op = "upload_file"
  /\ last.status = 400
  /\ last.detail = "Error processing KML file: Invalid KML structure or encoding"
  /\ last.upload.content = NOFEATURE_KML_CONTENT
  /\ last.path.suffix = <<".", "K", "M", "L">>

(* C7: save answers 400 and writes no file for an upload of zero bytes     *)
(* ("Empty file uploaded") or without an extension ("File has no           *)
(* extension").                                                            *)
Rejected400(answer, detail) == answer.status = 400 /\ answer.detail = detail

(* As claimed: each condition has its own message.                         *)
C7_EmptyOrNoExtensionRejected ==
  [][(ReachedSave(last') /\ last'.failed = "none") =>
       /\ last'.upload.content = EMPTY =>
            Rejected400(last', "Empty file uploaded") /\ files' = files
       /\ suffix(last'.upload.filename) = <<>> =>
            Rejected400(last', "File has no extension") /\ files' = files]_vars

(* As amended: the extension is tested first, and the bytes are tested     *)
(* once they have been read.                                               *)
C7_NoExtensionThenEmptyRejected ==
  [][(ReachedSave(last') /\ last'.failed # "read") =>
       /\ suffix(last'.upload.filename) = <<>> =>
            Rejected400(last', "File has no extension") /\ files' = files
       /\ (suffix(last'.upload.filename) # <<>> /\ last'.upload.content = EMPTY) =>
            Rejected400(last', "Empty file uploaded") /\ files' = files]_vars

C7_Witness ==
  /\ last.op = "upload_file"
  /\ last.detail = "Empty file uploaded"
  /\ last.upload.content = EMPTY
  /\ files # <<>>

(* C8: the classification of a declared type is Rejected outside the nine  *)
(* allowed types, Geo for the four geo types and Image for the five image  *)
(* types; upload_file answers a Rejected element 400 "Invalid file type"   *)
(* and saves nothing.                                                      *)
NineAllowedTypes ==
  { "image/png", "image/jpeg", "image/jpg", "image/gif", "image/webp",
    "application/geo+json", "application/vnd.google-earth.kml+xml",
    "application/json", "application/octet-stream" }

FourGeoTypes ==
  { "application/geo+json", "application/vnd.google-earth.kml+xml",
    "application/json", "application/octet-stream" }

Classified ==
  /\ \A m \in MimeTypes \cup NineAllowedTypes :
       /\ classify(m) \in {"Rejected", "Geo", "Image"}
       /\ classify(m) = "Rejected" <=> m \notin NineAllowedTypes
       /\ classify(m) = "Geo" <=> m \in FourGeoTypes
       /\ classify(m) = "Image" <=> m \in NineAllowedTypes \ FourGeoTypes
  /\ GEO_MIME_TYPES \subseteq ALLOWED_MIME_TYPES

C8_MimeClassification ==
  [][/\ Classified
     /\ (last'.op = "upload_file" /\ classify(last'.upload.content_type) = "Rejected") =>
          /\ Rejected400(last', "Invalid file type")
          /\ files' = files
          /\ geofiles' = geofiles
          /\ imagefiles' = imagefiles]_vars

C8_Witness ==
  /\ last.op = "upload_file"
  /\ last.upload.content_type = "text/plain"
  /\ last.detail = "Invalid file type"
  /\ last.upload.content # EMPTY
  /\ suffix(last.upload.filename) # <<>>

(* C9: after a geo upload of a JSON object with a 'type' key under an      *)
(* extension other than .kml, the institution has exactly one GeoFile row  *)
(* and get_file on its name answers the parsed upload; a file stays as it  *)
(* is until it is updated or deleted, and get_file answers what it holds.  *)
TypedObject(bytes) ==
  json_loads(bytes).ok /\ json_loads(bytes).dict /\ "type" \in json_loads(bytes).keys

RoundTripAtUpload ==
  (/\ last'.op = "upload_file"
   /\ last'.status = 200
   /\ last'.kind = "geo"
   /\ NotKml(last'.upload)
   /\ TypedObject(last'.upload.content)) =>
     /\ Cardinality({f \in geofiles' : f.institution_id = last'.inst}) = 1
     /\ \E f \in geofiles' :
          /\ f.institution_id = last'.inst
          /\ f.name = last'.name
          /\ f \notin geofiles
          /\ get_file_or_404(geofiles', files', last'.name, "GeoFile").file = {f}
          /\ load_geojson_content(files', f.path, "none")
               = Loaded(200, "", json_loads(last'.upload.content), "none")

FileKept(f) ==
  \/ f \in geofiles' /\ exists(files', f.path) /\ files'[f.path] = files[f.path]
  \/ last'.op \in {"update_file", "delete_file"} /\ last'.name = f.name
  \/ last'.op = "delete_institution" /\ last'.inst = f.institution_id

GetAnswersContent ==
  (last'.op = "get_file" /\ last'.kind = "geo" /\ last'.failed = "none") =>
    \A f \in geofiles :
      (f.name = last'.name /\ exists(files, f.path) /\ TypedObject(files[f.path])) =>
        last'.status = 200 /\ last'.body = json_loads(files[f.path])

C9_GeoRoundTrip ==
  [][/\ RoundTripAtUpload
     /\ \A f \in geofiles : exists(files, f.path) => FileKept(f)
     /\ GetAnswersContent]_vars

C9_Witness ==
  /\ last.op = "get_file"
  /\ last.kind = "geo"
  /\ last.status = 200
  /\ last.body = json_loads(GEOJSON_BYTES)
  /\ \E f \in geofiles :
       /\ f.name = last.name
       /\ f.updated_at = f.created_at
       /\ NotKml([filename |-> f.name.suffix])

(* C10: after update_file succeeds the file at the row's path holds the    *)
(* uploaded bytes, or their conversion for a .kml upload; updated_at has   *)
(* grown; name, path and institution are as before and the name still      *)
(* resolves.                                                               *)
Expected(file) ==
  IF NotKml(file) THEN file.content ELSE json_dumps(kml_convert(file.content).result)

C10_UpdateReplacesContent ==
  [][(last'.op = "update_file" /\ last'.status = 200) =>
       LET before == rows_named(IF last'.kind = "geo" THEN geofiles ELSE imagefiles,
                                last'.name)
           after == rows_named(IF last'.kind = "geo" THEN geofiles' ELSE imagefiles',
                               last'.name)
       IN  /\ Cardinality(before) = 1
           /\ Cardinality(after) = 1
           /\ \A old \in before, new \in after :
                /\ files'[old.path] = Expected(last'.upload)
                /\ new.updated_at = now
                /\ new.updated_at > old.updated_at
                /\ new.name = old.name
                /\ new.path = old.path
                /\ new.institution_id = old.institution_id
                /\ get_file_or_404(IF last'.kind = "geo" THEN geofiles' ELSE imagefiles',
                                   files', old.name, "File").file = {new}]_vars

C10_Witness ==
  /\ last.op = "update_file"
  /\ last.status = 200
  /\ ~NotKml(last.upload)
  /\ files[last.path] = CONVERTED_BYTES
  /\ \E f \in geofiles : f.path = last.path /\ f.updated_at > f.created_at

(* C11: delete_institution on an existing institution answers 200 and the *)
(* institution is gone, whatever files it owns; a lookup of its id then    *)
(* answers 404.                                                            *)
C11_DeleteInstitutionSucceeds ==
  [][(last'.op = "delete_institution" /\ last'.inst \in institution_ids) =>
       /\ last'.status = 200
       /\ get_institution_by_id(institutions', last'.inst).status = 404]_vars

(* C12: after delete_institution answers 200 for an institution that owns *)
(* a GeoFile and an ImageFile, the institution row, both file rows and     *)
(* both files on disk are gone, and either name answers 404.               *)
C12_CascadeDelete ==
  [][LET geo == {f \in geofiles : f.institution_id = last'.inst}
         image == {f \in imagefiles : f.institution_id = last'.inst}
     IN  (last'.op = "delete_institution" /\ last'.status = 200
          /\ geo # {} /\ image # {}) =>
           /\ last'.inst \notin {i.id : i \in institutions'}
           /\ \A f \in geo \cup image :
                f \notin geofiles' \cup imagefiles' /\ ~exists(files', f.path)
           /\ \A f \in geo :
                get_file_or_404(geofiles', files', f.name, "GeoFile").status = 404
           /\ \A f \in image :
                get_file_or_404(imagefiles', files', f.name, "ImageFile").status = 404]_vars

C12_Witness ==
  /\ last.op = "delete_institution"
  /\ last.status = 200
  /\ last.inst \notin institution_ids
  /\ nextUuid > last.inst + 2
  /\ geofiles = {}
  /\ imagefiles = {}

(* C13: get_file for kind geo or image answers 404 "<label> not found"    *)
(* when no row of the kind has the name, and 404 "<label> found in DB but  *)
(* missing in filesystem" when the row's file is absent; rows and storage  *)
(* stay as they are.                                                       *)
C13_GetFileNotFound ==
  [][(last'.op = "get_file" /\ last'.kind \in {"geo", "image"}) =>
       LET label == IF last'.kind = "geo" THEN "GeoFile" ELSE "ImageFile"
           named == {f \in (IF last'.kind = "geo" THEN geofiles ELSE imagefiles) :
                       f.name = last'.name}
       IN  /\ named = {} =>
                last'.status = 404 /\ last'.detail = label \o " not found"
           /\ (named # {} /\ \A f \in named : f.path \notin DOMAIN files) =>
                /\ last'.status = 404
                /\ last'.detail = label \o " found in DB but missing in filesystem"
           /\ (named # {} /\ \E f \in named : f.path \in DOMAIN files) =>
                last'.status # 404
           /\ UNCHANGED <<institutions, geofiles, imagefiles, files>>]_vars

C13_Witness ==
  /\ last.op = "get_file"
  /\ last.status = 404
  /\ last.detail = "GeoFile found in DB but missing in filesystem"
  /\ \E f \in geofiles : f.name = last.name /\ ~exists(files, f.path)

(* C14: load_geojson_content answers NotFound for an absent path, then    *)
(* ParseError for text that is no JSON, then InvalidStructure for a value  *)
(* that is no object or has no 'type' key, and else the parsed object; it  *)
(* leaves the storage as it is.                                            *)
NotFound(answer) == answer.status = 404 /\ answer.detail = "GeoJSON file not found"

ParseError(answer) ==
  answer.status = 400 /\ answer.detail = "Could not parse GeoJSON file content"

InvalidStructure(answer) ==
  /\ answer.status = 400
  /\ answer.detail = "Invalid GeoJSON structure: Missing 'type' key or not a dictionary."

Returned(answer, bytes) == answer.status = 200 /\ answer.body = json_loads(bytes)

(* The outcome the content decides once the text has been read.            *)
DecidedByContent(answer, bytes) ==
  IF ~json_loads(bytes).ok THEN ParseError(answer)
  ELSE IF ~json_loads(bytes).dict \/ "type" \notin json_loads(bytes).keys
    THEN InvalidStructure(answer)
  ELSE Returned(answer, bytes)

(* As claimed: the four outcomes are all there is.                         *)
C14_LoadFourOutcomes ==
  [][last'.op = "load_geojson_content" =>
       /\ IF ~exists(files, last'.path) THEN NotFound(last')
          ELSE DecidedByContent(last', files[last'.path])
       /\ files' = files]_vars

(* As amended: a read that fails is answered 500 and bytes that are no     *)
(* UTF-8 text 400, both after the test for absence and before the parse.   *)
C14_LoadOutcomesInOrder ==
  [][last'.op = "load_geojson_content" =>
       /\ IF ~exists(files, last'.path) THEN NotFound(last') /\ last'.failed = "none"
          ELSE IF last'.failed = "read" THEN last'.status = 500
          ELSE IF ~utf8(files[last'.path])
            THEN /\ last'.status = 400
                 /\ ~ParseError(last')
                 /\ ~InvalidStructure(last')
          ELSE DecidedByContent(last', files[last'.path])
       /\ files' = files]_vars

C14_Witness ==
  /\ last.op = "load_geojson_content"
  /\ InvalidStructure(last)
  /\ exists(files, last.path)
  /\ files[last.path] = LIST_BYTES

ConversionRefused(answer) ==
  /\ ~NotKml(answer.upload)
  /\ BadKml(answer.upload.content)
  /\ answer.failed = "none"
  /\ \/ ReachedSave(answer) /\ answer.upload.content # EMPTY
     \/ answer.op = "update_file" /\ answer.path # NoPath

C16_ConversionFailureIs400 ==
  [][ConversionRefused(last') => last'.status \in 400..499]_vars

(* C17: while overwrites of the target run interleaved with reads of it,  *)
(* the target always exists, only the move of an overwrite changes it, to  *)
(* the whole new content, and every read observes the content before the   *)
(* overwrites or the whole content of one that has moved.                  *)
Overwrites == {c \in DOMAIN calls : calls[c].op = "overwrite_file"}

Reads == {c \in DOMAIN calls : calls[c].op = "load_geojson_content"}

Moved == {Expected(calls[c].file) : c \in {d \in Overwrites : calls[d].pc = "done"}}

C17_ReadsSeeWholeContent ==
  [][/\ exists(files, Target) /\ exists(files', Target)
     /\ files'[Target] # files[Target] =>
          \E c \in Overwrites :
            /\ calls[c].pc = "move"
            /\ calls'[c].pc = "done"
            /\ files'[Target] = Expected(calls[c].file)
     /\ \A c \in Reads :
          (calls[c].pc # "done" /\ calls'[c].pc = "done") =>
            calls'[c].observed \in {TargetUpload.content} \cup Moved]_vars

C17_Witness ==
  \E c \in Overwrites, r \in Reads, d \in Reads :
    /\ c < r /\ r < d
    /\ calls[c].pc = "done"
    /\ calls[r].pc = "done" /\ calls[r].observed = TargetUpload.content
    /\ calls[d].pc = "done" /\ calls[d].observed = CONVERTED_BYTES

(* C18: when two overwrites of the target have both moved their file, the  *)
(* target holds the whole content of the one that moved last and no        *)
(* temporary file of either is left.                                       *)
C18_LastMoveWins ==
  (Cardinality(Overwrites) = 2 /\ \A c \in Overwrites : calls[c].pc = "done") =>
    /\ last.op = "overwrite_file"
    /\ \E c \in Overwrites : calls[c].file = last.upload
    /\ files[Target] = Expected(last.upload)
    /\ \A q \in DOMAIN files : ~q.hidden
    /\ DOMAIN files = {Target}

C18_Witness ==
  /\ Cardinality(Overwrites) = 2
  /\ \A c \in Overwrites : calls[c].pc = "done"
  /\ \E c \in Overwrites, d \in Overwrites :
       /\ c < d
       /\ Expected(calls[c].file) # Expected(calls[d].file)
       /\ files[Target] = Expected(calls[c].file)
       /\ is_kml(calls[c].file)

(* C19: with fresh identifiers, calls of save that run one after another  *)
(* or interleaved allocate different paths, none writes a path another     *)
(* save wrote, the file a save has stored keeps its content, and the names *)
(* and paths of the rows of a kind are unique.                             *)
Saves == {c \in DOMAIN calls : calls[c].op = "create_file"}

UniqueNames(rows) == \A f, g \in rows : (f.name = g.name \/ f.path = g.path) => f = g

C19_SavesNeverCollide ==
  [][/\ \A c, d \in Saves :
          c # d =>
            /\ calls'[c].path = NoPath \/ calls'[c].path # calls'[d].path
            /\ calls'[c].wrote \cap calls'[d].wrote = {}
     /\ \A c \in Saves : Target \notin calls'[c].wrote
     /\ files'[Target] = files[Target]
     /\ \A c \in Saves :
          (calls[c].pc \in {"commit", "done"} /\ exists(files, calls[c].path)) =>
            exists(files', calls[c].path) /\ files'[calls[c].path] = files[calls[c].path]
     /\ UniqueNames(geofiles') /\ UniqueNames(imagefiles')
     /\ Cardinality(geofiles') = 1 + Cardinality({c \in Saves : calls'[c].pc = "done"})]_vars

C19_Witness ==
  \E c \in Saves, d \in Saves :
    /\ c < d
    /\ calls[c].file = calls[d].file
    /\ calls[c].pc = "done" /\ calls[d].pc = "done"
    /\ calls[c].path.uuid > calls[d].path.uuid
    /\ exists(files, calls[c].path) /\ exists(files, calls[d].path)

(* C20: once the requests have completed, the file of every GeoFile row    *)
(* holds GeoJSON: load_geojson_content on the row's path returns a JSON    *)
(* object with a "type" key, whatever the accepted uploads and updates     *)
(* carried.                                                                *)
C20_GeoRowsHoldGeoJSON ==
  ~batch.open =>
    \A f \in geofiles : load_geojson_content(files, f.path, "none").status = 200

(* C21: every call of save_file and of overwrite_file has closed the       *)
(* upload when it ends, whether it returned or raised, and whichever step  *)
(* failed: the path, the read, the write, the conversion or the move.      *)
SaveCalled(answer) == SaveFailed(answer) \/ SaveReturned(answer)

OverwriteCalled(answer) == answer.op = "update_file" /\ answer.path # NoPath

C21_UploadAlwaysClosed ==
  [][(SaveCalled(last') \/ OverwriteCalled(last')) => last'.closed]_vars

C21_Witness ==
  /\ OverwriteCalled(last)
  /\ last.status = 500
  /\ last.failed = "move"
  /\ last.closed

(* C22: create_institution with the name of an existing institution is    *)
(* answered 400 "Institution already exists" and changes no institution;   *)
(* with a new name it adds one institution; no two institutions carry the  *)
(* same name.                                                              *)
institution_names(rows) == {i.name : i \in rows}

UniqueInstitutionNames(rows) == \A i, j \in rows : i.name = j.name => i = j

C22_DuplicateInstitutionRejected ==
  [][/\ last'.op = "create_institution" =>
          IF last'.institution_name \in institution_names(institutions)
            THEN /\ last'.status = 400
                 /\ last'.detail = "Institution already exists"
                 /\ institutions' = institutions
            ELSE /\ last'.status = 201
                 /\ institution_names(institutions') =
                      institution_names(institutions) \cup {last'.institution_name}
     /\ UniqueInstitutionNames(institutions')]_vars

C22_Witness ==
  /\ last.op = "create_institution"
  /\ last.status = 400
  /\ last.institution_name \in institution_names(institutions)
  /\ Cardinality(institutions) = 2

(* C23: update_file with an upload of no bytes, once it has found the      *)
(* file to replace, is answered with a 400-class status and leaves the     *)
(* storage as it was.                                                      *)
C23_EmptyUpdateRejected ==
  [][(OverwriteCalled(last') /\ last'.upload.content = EMPTY /\ last'.failed = "none") =>
       /\ last'.status \in 400..499
       /\ files' = files]_vars

(* C24: when requests that upload a file of one kind for one institution   *)
(* run interleaved, at most one of them creates a row, and the institution *)
(* has at most one file of the kind.                                       *)
Committed == {c \in DOMAIN calls : calls[c].op = "create_file" /\ calls[c].pc = "done"}

C24_AtMostOneUnderConcurrency ==
  /\ Cardinality(Committed) <= 1
  /\ \A f, g \in geofiles : f.institution_id = g.institution_id => f = g

(* C25: when requests that update and delete the same file have all       *)
(* finished, a file is at the path of the record only if a row names that  *)
(* path.                                                                   *)
AllReturned == \A c \in DOMAIN calls : calls[c].pc \in {"returned", "failed"}

C25_NoFileWithoutRow ==
  (calls # <<>> /\ AllReturned) =>
    (exists(files, Target) => \E f \in geofiles : f.path = Target)

(* C26: delete_file on a row whose file is missing from the storage is     *)
(* answered 404 "... found in DB but missing in filesystem" and changes    *)
(* neither rows nor storage; an upload of that kind for the institution of *)
(* such a row is rejected as a duplicate; and the row stays, its file      *)
(* missing, until delete_institution succeeds for its institution.         *)
rows_of(kind) == IF kind = "geo" THEN geofiles ELSE imagefiles

Orphans(kind) == {f \in rows_of(kind) : ~exists(files, f.path)}

MissingInFilesystem(answer) ==
  /\ answer.status = 404
  /\ answer.detail =
       (IF answer.kind = "geo" THEN "GeoFile" ELSE "ImageFile")
         \o " found in DB but missing in filesystem"

C26_DeleteOfMissingFileKeepsRow ==
  [][/\ (/\ last'.op = "delete_file"
         /\ last'.kind \in {"geo", "image"}
         /\ \E f \in Orphans(last'.kind) : f.name = last'.name)
        => /\ MissingInFilesystem(last')
           /\ UNCHANGED <<geofiles, imagefiles, files>>
     /\ (/\ last'.op = "upload_file"
         /\ last'.upload.content_type \in ALLOWED_MIME_TYPES
         /\ \E f \in Orphans(last'.kind) : f.institution_id = last'.inst)
        => /\ last'.status = 400
           /\ last'.detail = "File already exists for institution"
           /\ UNCHANGED <<geofiles, imagefiles, files>>
     /\ \A kind \in {"geo", "image"} : \A f \in Orphans(kind) :
          \/ f \in rows_of(kind)' /\ ~exists(files', f.path)
          \/ /\ last'.op = "delete_institution"
             /\ last'.status = 200
             /\ last'.inst = f.institution_id]_vars

C26_Witness ==
  /\ last.op = "delete_file"
  /\ last.kind = "geo"
  /\ MissingInFilesystem(last)
  /\ \E f \in Orphans("geo") : f.name = last.name

(* C27: upload_file takes the files of a request in order and commits each *)
(* as it goes: an accepted element adds its row at the end of the          *)
(* request's list at once; when a later element is rejected the request    *)
(* ends with an error, and the rows and stored files of the elements       *)
(* before it are still there, unchanged.                                   *)
KeptFrom(names, rows) ==
  \A k \in DOMAIN names :
    \E f \in rows :
      /\ f.name = names[k]
      /\ f \in rows'
      /\ exists(files', f.path)
      /\ files'[f.path] = files[f.path]

ElementRejected == batch.open /\ last'.op = "upload_file" /\ last'.status # 200

ElementAccepted == last'.op = "upload_file" /\ last'.status = 200

C27_BatchCommitsElementwise ==
  [][/\ ElementRejected =>
          /\ last'.status >= 400
          /\ batch' = NoBatch
          /\ geofiles' = geofiles /\ imagefiles' = imagefiles
          /\ KeptFrom(batch.geo_files, geofiles)
          /\ KeptFrom(batch.image_files, imagefiles)
     /\ ElementAccepted =>
          /\ batch'.open
          /\ batch'.geo_files \o batch'.image_files
               \in {Append(batch.geo_files, last'.name) \o batch.image_files,
                    batch.geo_files \o Append(batch.image_files, last'.name)}
          /\ \E f \in geofiles' \cup imagefiles' : f.name = last'.name /\ exists(files', f.path)
          /\ KeptFrom(batch.geo_files, geofiles)
          /\ KeptFrom(batch.image_files, imagefiles)]_vars

C27_Witness ==
  /\ last.op = "upload_file"
  /\ last.status = 400
  /\ last.detail = "Empty file uploaded"
  /\ last.kind = "image"
  /\ ~batch.open
  /\ Len(last.geo_files) = 1
  /\ \E f \in geofiles :
       f.name = last.geo_files[1] /\ f.institution_id = last.inst /\ exists(files, f.path)

(* C28: the institution_id of every file row is the id of an institution;  *)
(* an upload for an id that no institution has leaves no row and no file.  *)
C28_RowsNameAnInstitution ==
  [][/\ \A f \in geofiles' \cup imagefiles' : f.institution_id \in {i.id : i \in institutions'}
     /\ (last'.op = "upload_file" /\ last'.inst \notin institution_ids) =>
          /\ geofiles' = geofiles
          /\ imagefiles' = imagefiles
          /\ files' = files]_vars

(* C29: once the requests have completed, the size of every file row is    *)
(* the length of the file stored at the row's path.                        *)
C29_SizeTracksContent ==
  ~batch.open =>
    \A f \in geofiles \cup imagefiles :
      exists(files, f.path) => f.size = Len(files[f.path])

(* C30: when delete_file has succeeded, the row and the stored file are    *)
(* gone, and the institution of the row has no file of the kind; get_file  *)
(* for a name no row of the kind carries is answered 404 "... not found";  *)
(* and an upload of a kind the institution has no file of is not rejected  *)
(* as a duplicate: save_file decides, and a row is added when it returns.  *)
label(kind) == IF kind = "geo" THEN "GeoFile" ELSE "ImageFile"

rows_after(kind) == IF kind = "geo" THEN geofiles' ELSE imagefiles'

Deleted == last'.op = "delete_file" /\ last'.status = 200

C30_DeleteThenGone ==
  [][/\ Deleted =>
          \E f \in rows_of(last'.kind) :
            /\ f.name = last'.name /\ f.path = last'.path
            /\ exists(files, f.path)
            /\ ~exists(files', f.path)
            /\ \A g \in rows_after(last'.kind) :
                 g.name # f.name /\ g.institution_id # f.institution_id
            /\ get_file_or_404(rows_after(last'.kind), files', f.name, label(last'.kind))
                 = [status |-> 404, detail |-> label(last'.kind) \o " not found", file |-> {}]
     /\ (/\ last'.op = "get_file"
         /\ last'.kind \in {"geo", "image"}
         /\ \A g \in rows_of(last'.kind) : g.name # last'.name)
        => /\ last'.status = 404
           /\ last'.detail = label(last'.kind) \o " not found"
     /\ (/\ last'.op = "upload_file"
         /\ last'.upload.content_type \in ALLOWED_MIME_TYPES
         /\ last'.inst \in institution_ids
         /\ \A g \in rows_of(last'.kind) : g.institution_id # last'.inst)
        => /\ last'.detail # "File already exists for institution"
           /\ SaveCalled(last')
           /\ (last'.status = 200 <=>
                 save_file(files, last'.upload, nextUuid, last'.failed).status = 200)
           /\ last'.status = 200 =>
                \E g \in rows_after(last'.kind) :
                  g.name = last'.name /\ g.institution_id = last'.inst]_vars

C30_Witness ==
  /\ last.op = "delete_file"
  /\ last.status = 200
  /\ last.kind = "geo"
  /\ ~exists(files, last.path)
  /\ geofiles = {}
  /\ institutions # {}

====
